---------------------------- MODULE Spec2Model ----------------------------
(***************************************************************************)
(* rlay-validate, src/serialization_data.rs: SerializationFormatDataFields *)
(* checks that the data field of an entity is a multicodec envelope whose  *)
(* codec is CBOR and whose payload decodes as a stream of CBOR items.      *)
(*                                                                         *)
(* One call of validate is modelled as the sequence of its program points: *)
(*   Validate        the match over the entity variant      (lines 24-53)  *)
(*   DecodeEnvelope  MultiCodec::from(data) and its map_err (line 56)      *)
(*   DispatchCodec   the match over parsed.codec            (lines 57-60)  *)
(*   CollectItems    one next() of items().collect()        (line 66)      *)
(*   Return          the call returns its Result            (52, 62, 67)   *)
(*                                                                         *)
(* The two decoders are external crates (multicodec, cbor) whose source is *)
(* not part of the repository; MultiCodec_from, read_data_item and what    *)
(* they use are modelled from the published wire formats (unsigned-varint  *)
(* codec prefix; CBOR major type / additional information framing) and     *)
(* are pinned by the repository's three tests.                             *)
(***************************************************************************)
EXTENDS Integers, Sequences, FiniteSets, TLC

\* ------------------------------------------------------------- bounds
\* Longest byte string held by a data field.
MaxLen == 4
\* Number of calls of validate made on the entity.
MaxCalls == 2

\* ------------------------------------------------------------- bytes
\* The multicodec table codes of the two codecs the tests use.
CborCode == 81          \* 0x51
ProtobufCode == 80      \* 0x50

\* The bytes the data fields are built from:
\*   0x50  protobuf codec code; as CBOR a byte-string head of length 16
\*   0x51  cbor codec code;     as CBOR a byte-string head of length 17
\*   0x81  CBOR array of one item; as a varint byte, a continuation byte
\*   0xf5  CBOR true;              as a varint byte, a continuation byte
\*   0xf9  CBOR half-float head (two more bytes follow); continuation byte
Byte == {80, 81, 129, 245, 249}

RECURSIVE SeqsUpTo(_)
SeqsUpTo(n) ==
    IF n = 0 THEN {<<>>}
    ELSE LET shorter == SeqsUpTo(n - 1)
         IN  shorter \cup {Append(s, b) : s \in {t \in shorter : Len(t) = n - 1}, b \in Byte}

ByteStrings == SeqsUpTo(MaxLen)

Drop(s, n) == SubSeq(s, n + 1, Len(s))

\* Option<Vec<u8>>: None is the empty tuple, Some(b) the one-element tuple.
None == <<>>
Some(b) == <<b>>

\* ------------------------------------------------------------- Error
Ok == [kind |-> "Ok", codec |-> "-", cause |-> "-"]
MulticodecParseError(cause) ==
    [kind |-> "MulticodecParseError", codec |-> "-", cause |-> cause]
UnsupportedCodec(codec) ==
    [kind |-> "UnsupportedCodec", codec |-> codec, cause |-> "-"]
UndecodableCbor(cause) ==
    [kind |-> "UndecodableCbor", codec |-> "-", cause |-> cause]

ErrorKinds == {"MulticodecParseError", "UnsupportedCodec", "UndecodableCbor"}

\* ------------------------------------------------- multicodec (external)
\* A code is held as its base-128 numeral, least significant group first (the
\* groups of its varint), so that a code of any width is exact.  Code(g)
\* drops the high zero groups, which do not change the value.
RECURSIVE Code(_)
Code(g) ==
    IF g # <<>> /\ g[Len(g)] = 0 THEN Code(SubSeq(g, 1, Len(g) - 1)) ELSE g

\* Codec::from_code: the codec a table code names, "" for a code the table
\* does not hold.
CodecOfCode(g) ==
    CASE Code(g) = <<CborCode>> -> "Cbor"
      [] Code(g) = <<ProtobufCode>> -> "Protobuf"
      [] OTHER -> ""

\* The unsigned varint at the head of b, read from byte i on with g the groups
\* of the bytes before it: 7 bits a byte, least significant group first, the
\* high bit set on every byte but the last.  (A u64 holds nine full groups;
\* MaxLen keeps the fields shorter than that.)
RECURSIVE varint_u64(_, _, _)
varint_u64(b, i, g) ==
    IF i > Len(b) THEN [ok |-> FALSE, cause |-> "VarintInsufficient"]
    ELSE LET v == Append(g, b[i] % 128)
         IN  IF b[i] < 128
             THEN [ok |-> TRUE, value |-> v, rest |-> Drop(b, i)]
             ELSE varint_u64(b, i + 1, v)

\* MultiCodec::from(data): the codec prefix and the bytes after it.
MultiCodec_from(data) ==
    LET v == varint_u64(data, 1, <<>>)
    IN  IF ~v.ok THEN [ok |-> FALSE, cause |-> v.cause]
        ELSE IF CodecOfCode(v.value) = ""
             THEN [ok |-> FALSE, cause |-> "InvalidCodec"]
             ELSE [ok |-> TRUE, codec |-> CodecOfCode(v.value), data |-> v.rest]

\* MultiCodec::new(codec, data).pack() for the one-byte codes of the table.
MultiCodec_pack(code, data) == <<code>> \o data

\* ------------------------------------------------------ cbor (external)
\* The argument of a head byte: the additional information itself below 24,
\* else the big-endian integer of the 1, 2, 4 or 8 bytes that follow.
RECURSIVE BigEndian(_)
BigEndian(s) == IF s = <<>> THEN 0 ELSE BigEndian(SubSeq(s, 1, Len(s) - 1)) * 256 + s[Len(s)]

read_uint(add, b) ==
    IF add < 24 THEN [ok |-> TRUE, value |-> add, rest |-> b]
    ELSE IF add > 27 THEN [ok |-> FALSE, cause |-> "InvalidAddValue"]
    ELSE LET n == 2 ^ (add - 24)
         IN  IF Len(b) < n THEN [ok |-> FALSE, cause |-> "UnexpectedEOF"]
             ELSE [ok |-> TRUE, value |-> BigEndian(SubSeq(b, 1, n)), rest |-> Drop(b, n)]

\* One data item at the head of b: ok with the bytes left after it, or the
\* structural error.  read_items reads n items in a row (an array's elements,
\* a map's keys and values).
RECURSIVE read_data_item(_), read_items(_, _)
read_data_item(b) ==
    IF b = <<>> THEN [ok |-> FALSE, cause |-> "UnexpectedEOF"]
    ELSE LET major == b[1] \div 32
             add == b[1] % 32
             len == read_uint(add, Tail(b))
         IN  CASE major \in {0, 1} ->
                    IF len.ok THEN [ok |-> TRUE, rest |-> len.rest]
                    ELSE [ok |-> FALSE, cause |-> len.cause]
               [] major = 2 ->
                    IF ~len.ok THEN [ok |-> FALSE, cause |-> len.cause]
                    ELSE IF Len(len.rest) < len.value
                         THEN [ok |-> FALSE, cause |-> "UnexpectedEOF"]
                         ELSE [ok |-> TRUE, rest |-> Drop(len.rest, len.value)]
               [] major = 4 ->
                    IF ~len.ok THEN [ok |-> FALSE, cause |-> len.cause]
                    ELSE read_items(len.value, len.rest)
               [] major = 5 ->
                    IF ~len.ok THEN [ok |-> FALSE, cause |-> len.cause]
                    ELSE read_items(2 * len.value, len.rest)
               [] major = 7 /\ add \in 20..23 -> [ok |-> TRUE, rest |-> Tail(b)]
               [] major = 7 /\ add \in 25..27 ->
                    IF len.ok THEN [ok |-> TRUE, rest |-> len.rest]
                    ELSE [ok |-> FALSE, cause |-> len.cause]
               [] OTHER -> [ok |-> FALSE, cause |-> "Unassigned"]
read_items(n, b) ==
    IF n = 0 THEN [ok |-> TRUE, rest |-> b]
    ELSE LET item == read_data_item(b)
         IN  IF item.ok THEN read_items(n - 1, item.rest) ELSE item

\* Items::next(): None at the end of the input, else the next item's result.
items_next(rest) ==
    IF rest = <<>> THEN [end |-> TRUE]
    ELSE [end |-> FALSE, item |-> read_data_item(rest)]

\* ------------------------------------------------------------ entities
DataKinds ==
    {"Annotation", "DataPropertyAssertion", "NegativeDataPropertyAssertion",
     "AnnotationAssertion", "NegativeAnnotationAssertion"}
\* Variants that carry no serialized data.
OtherKinds == {"Class", "ObjectPropertyAssertion"}

\* What the fields other than the data field (annotations, property, subject)
\* hold: nothing, or bytes that are a CBOR envelope of an undecodable payload.
OtherFields == {<<>>, <<CborCode, 249>>}

\* An entity: its variant, its data field (value / target) and the rest.
\* Annotation.value is a Vec<u8>, always there; the assertions' target / value
\* are Option<Vec<u8>>; the other variants have no such field.
Entities ==
    {[kind |-> k, data |-> d, other |-> o] :
        k \in DataKinds \cup OtherKinds,
        d \in {None} \cup {Some(b) : b \in ByteStrings},
        o \in OtherFields}

WellTyped(e) ==
    /\ e.kind = "Annotation" => e.data # None
    /\ e.kind \in OtherKinds => e.data = None

\* --------------------------------------------------------------- state
VARIABLES
    entity,     \* the entity the caller holds and passes by reference
    pc,         \* "idle", "envelope", "dispatch", "collect", "return"
    data,       \* validate_field's argument
    parsed,     \* the decoded envelope
    reader,     \* the bytes the cbor Decoder has not read yet
    items,      \* the length of the collected Vec<Cbor>
    result,     \* the Result the call is about to return
    stages,     \* history: the stages the running (or last) call went through
    outcomes    \* history: the Results of the calls that returned

vars == <<entity, pc, data, parsed, reader, items, result, stages, outcomes>>

\* ----------------------------------------------------------- validate
\* Variants of the match, each a slip the match could hold: an absent
\* optional field read as an empty one (unwrap_or_default) ...
field_to_validate_or_default(e) ==
    IF e.kind \in DataKinds THEN (IF e.data = None THEN Some(<<>>) ELSE e.data) ELSE None
\* ... the arm of the last data-carrying variant left to the wildcard ...
field_to_validate_four_arms(e) ==
    IF e.kind \in DataKinds \ {"NegativeAnnotationAssertion"} THEN e.data ELSE None
\* ... and a field holding no bytes skipped like an absent one.
field_to_validate_skip_empty(e) ==
    IF e.kind \in DataKinds /\ e.data # Some(<<>>) THEN e.data ELSE None

\* The match of validate: the field handed to validate_field, if any.
field_to_validate(e) ==
    CASE e.kind = "Annotation" -> e.data
      [] e.kind = "DataPropertyAssertion" -> e.data
      [] e.kind = "NegativeDataPropertyAssertion" -> e.data
      [] e.kind = "AnnotationAssertion" -> e.data
      [] e.kind = "NegativeAnnotationAssertion" -> e.data
      [] OTHER -> None

\* Variants of line 56: a failed parse taken as nothing to check
\* (if let Ok(parsed) = ...) ...
decode_envelope_lenient(bytes) ==
    LET p == MultiCodec_from(bytes)
    IN  IF p.ok THEN [next |-> "dispatch", parsed |-> [codec |-> p.codec, data |-> p.data],
                      result |-> Ok]
        ELSE [next |-> "return", parsed |-> [codec |-> "-", data |-> <<>>], result |-> Ok]
\* ... and a failed parse replaced by a default envelope that goes on to the
\* codec match (unwrap_or_default).
decode_envelope_default(bytes) ==
    LET p == MultiCodec_from(bytes)
    IN  IF p.ok THEN [next |-> "dispatch", parsed |-> [codec |-> p.codec, data |-> p.data],
                      result |-> Ok]
        ELSE [next |-> "dispatch", parsed |-> [codec |-> "-", data |-> <<>>], result |-> Ok]

\* validate_field, line 56: the envelope's parse, its failure mapped.
decode_envelope(bytes) ==
    LET p == MultiCodec_from(bytes)
    IN  IF p.ok THEN [next |-> "dispatch", parsed |-> [codec |-> p.codec, data |-> p.data],
                      result |-> Ok]
        ELSE [next |-> "return", parsed |-> [codec |-> "-", data |-> <<>>],
              result |-> MulticodecParseError(p.cause)]

\* Variants of lines 57-60: every codec's payload handed to the CBOR parser ...
dispatch_codec_any(mc) ==
    [next |-> "collect", reader |-> mc.data, result |-> Ok]
\* ... and a Decoder kept in the validator across calls, which an earlier
\* call has read to its end.
dispatch_codec_shared_reader(mc) ==
    IF mc.codec = "Cbor"
    THEN [next |-> "collect", reader |-> IF outcomes = <<>> THEN mc.data ELSE <<>>,
          result |-> Ok]
    ELSE [next |-> "return", reader |-> <<>>, result |-> UnsupportedCodec(mc.codec)]

\* validate_field, lines 57-60: the match over the codec.
dispatch_codec(mc) ==
    IF mc.codec = "Cbor"
    THEN [next |-> "collect", reader |-> mc.data, result |-> Ok]
    ELSE [next |-> "return", reader |-> <<>>, result |-> UnsupportedCodec(mc.codec)]

\* Variants of line 66: a stream that ends before its first item taken as an
\* error (a decoder asked for exactly one value) ...
collect_step_nonempty(rdr) ==
    LET n == items_next(rdr)
    IN  IF n.end
        THEN [next |-> "return", reader |-> rdr, pushed |-> 0,
              result |-> IF items = 0 THEN UndecodableCbor("UnexpectedEOF") ELSE Ok]
        ELSE IF n.item.ok
             THEN [next |-> "collect", reader |-> n.item.rest, pushed |-> 1, result |-> Ok]
             ELSE [next |-> "return", reader |-> rdr, pushed |-> 0,
                   result |-> UndecodableCbor(n.item.cause)]
\* ... and the items kept up to the first error, the error dropped
\* (take_while(Result::is_ok)).
collect_step_lenient(rdr) ==
    LET n == items_next(rdr)
    IN  IF n.end THEN [next |-> "return", reader |-> rdr, pushed |-> 0, result |-> Ok]
        ELSE IF n.item.ok
             THEN [next |-> "collect", reader |-> n.item.rest, pushed |-> 1, result |-> Ok]
             ELSE [next |-> "return", reader |-> rdr, pushed |-> 0, result |-> Ok]

\* validate_cbor_value, line 66: one turn of collect::<Result<Vec<_>, _>>()
\* over items(): the end of the stream ends it with Ok, an item is pushed,
\* the first error ends it.
collect_step(rdr) ==
    LET n == items_next(rdr)
    IN  IF n.end THEN [next |-> "return", reader |-> rdr, pushed |-> 0, result |-> Ok]
        ELSE IF n.item.ok
             THEN [next |-> "collect", reader |-> n.item.rest, pushed |-> 1, result |-> Ok]
             ELSE [next |-> "return", reader |-> rdr, pushed |-> 0,
                   result |-> UndecodableCbor(n.item.cause)]

NoParsed == [codec |-> "-", data |-> <<>>]

Init ==
    /\ entity \in {e \in Entities : WellTyped(e)}
    /\ pc = "idle"
    /\ data = <<>>
    /\ parsed = NoParsed
    /\ reader = <<>>
    /\ items = 0
    /\ result = Ok
    /\ stages = <<>>
    /\ outcomes = <<>>

\* validate(&self, entity), lines 24-53.
Validate ==
    /\ pc = "idle"
    /\ Len(outcomes) < MaxCalls
    /\ LET f == field_to_validate(entity)
       IN  /\ pc' = IF f = None THEN "return" ELSE "envelope"
           /\ data' = IF f = None THEN <<>> ELSE f[1]
    /\ parsed' = NoParsed
    /\ reader' = <<>>
    /\ items' = 0
    /\ result' = Ok
    /\ stages' = <<>>
    /\ UNCHANGED <<entity, outcomes>>

\* validate_field, line 56.
DecodeEnvelope ==
    /\ pc = "envelope"
    /\ LET s == decode_envelope(data)
       IN  /\ pc' = s.next
           /\ parsed' = s.parsed
           /\ result' = s.result
    /\ stages' = Append(stages, "envelope")
    /\ UNCHANGED <<entity, data, reader, items, outcomes>>

\* validate_field, lines 57-60.
DispatchCodec ==
    /\ pc = "dispatch"
    /\ LET s == dispatch_codec(parsed)
       IN  /\ pc' = s.next
           /\ reader' = s.reader
           /\ result' = s.result
    /\ stages' = Append(stages, "dispatch")
    /\ UNCHANGED <<entity, data, parsed, items, outcomes>>

\* validate_cbor_value, line 66.
CollectItems ==
    /\ pc = "collect"
    /\ LET s == collect_step(reader)
       IN  /\ pc' = s.next
           /\ reader' = s.reader
           /\ items' = items + s.pushed
           /\ result' = s.result
    /\ stages' = IF stages[Len(stages)] = "payload" THEN stages ELSE Append(stages, "payload")
    /\ UNCHANGED <<entity, data, parsed, outcomes>>

\* The call returns result to its caller.
Return ==
    /\ pc = "return"
    /\ pc' = "idle"
    /\ outcomes' = Append(outcomes, result)
    /\ UNCHANGED <<entity, data, parsed, reader, items, result, stages>>

Next == Validate \/ DecodeEnvelope \/ DispatchCodec \/ CollectItems \/ Return

Spec == Init /\ [][Next]_vars

\* ------------------------------------------------------- what is claimed
\* The data field validate looks at, when the entity has one.
HasField == entity.kind \in DataKinds /\ entity.data # None
TheField == entity.data[1]
Returning == pc = "return"

\* The whole payload decoded in one go: the number of items that decode and,
\* when one does not, its error.
RECURSIVE ParseStream(_)
ParseStream(p) ==
    IF p = <<>> THEN [ok |-> TRUE, n |-> 0, cause |-> "-"]
    ELSE LET it == read_data_item(p)
         IN  IF ~it.ok THEN [ok |-> FALSE, n |-> 0, cause |-> it.cause]
             ELSE LET r == ParseStream(it.rest)
                  IN  [ok |-> r.ok, n |-> r.n + 1, cause |-> r.cause]

Envelope(b) == MultiCodec_from(b)
CborEnvelope(b) == Envelope(b).ok /\ Envelope(b).codec = "Cbor"

\* The envelope-then-payload check of a byte string, as one function of it.
FieldOutcome(b) ==
    IF ~Envelope(b).ok THEN MulticodecParseError(Envelope(b).cause)
    ELSE IF Envelope(b).codec # "Cbor" THEN UnsupportedCodec(Envelope(b).codec)
    ELSE IF ParseStream(Envelope(b).data).ok THEN Ok
    ELSE UndecodableCbor(ParseStream(Envelope(b).data).cause)

\* C1: an entity of a variant without a data field, or whose optional data
\* field is absent, validates to success whatever its other fields hold, and
\* neither the envelope decoder nor the payload parser runs for it.
C1_NoFieldIsOk ==
    ~HasField =>
        /\ stages = <<>>
        /\ pc \in {"idle", "return"}
        /\ result = Ok
        /\ \A i \in DOMAIN outcomes : outcomes[i] = Ok
C1_Witness ==
    /\ Returning
    /\ entity.kind = "ObjectPropertyAssertion"
    /\ entity.other = <<CborCode, 249>>
    /\ result = Ok

\* C2: a field that is a CBOR envelope whose payload parses completely into
\* N >= 0 items validates to success, the N items collected; N = 0, the
\* envelope of an empty payload, included.
C2_WellFormedIsOk ==
    (Returning /\ HasField /\ CborEnvelope(TheField)
        /\ ParseStream(Envelope(TheField).data).ok) =>
        /\ result = Ok
        /\ items = ParseStream(Envelope(TheField).data).n
C2_Witness ==
    /\ Returning
    /\ HasField
    /\ TheField = MultiCodec_pack(CborCode, <<>>)
    /\ items = 0
    /\ result = Ok

\* C3: a field whose envelope names a codec other than CBOR validates to
\* UnsupportedCodec carrying that codec, whatever the payload bytes are, and
\* the payload is not parsed.
C3_UnsupportedCodec ==
    (Returning /\ HasField /\ Envelope(TheField).ok /\ Envelope(TheField).codec # "Cbor") =>
        /\ result = UnsupportedCodec(Envelope(TheField).codec)
        /\ stages = <<"envelope", "dispatch">>
C3_Witness ==
    /\ Returning
    /\ entity.kind = "Annotation"
    /\ TheField = MultiCodec_pack(ProtobufCode, <<245>>)
    /\ result = UnsupportedCodec("Protobuf")

\* C4: a field whose codec prefix is truncated or names no codec validates to
\* MulticodecParseError carrying the envelope decoder's failure, never to
\* success, UnsupportedCodec or UndecodableCbor.
C4_MalformedEnvelope ==
    (Returning /\ HasField /\ ~Envelope(TheField).ok) =>
        result = MulticodecParseError(Envelope(TheField).cause)
C4_Witness ==
    /\ Returning
    /\ HasField
    /\ TheField = <<129, CborCode>>
    /\ result = MulticodecParseError("InvalidCodec")

\* C5: a CBOR envelope whose payload does not parse completely validates to
\* UndecodableCbor carrying the first structural error, also when items
\* before the failing one parsed.
C5_MalformedPayload ==
    (Returning /\ HasField /\ CborEnvelope(TheField)
        /\ ~ParseStream(Envelope(TheField).data).ok) =>
        /\ result = UndecodableCbor(ParseStream(Envelope(TheField).data).cause)
        /\ items = ParseStream(Envelope(TheField).data).n
C5_Witness ==
    /\ Returning
    /\ HasField
    /\ TheField = MultiCodec_pack(CborCode, <<245, 249>>)
    /\ items = 1
    /\ result = UndecodableCbor("UnexpectedEOF")

\* C6: no step of validate changes the entity, and every call after the
\* first returns what the first call returned.
C6_Idempotent ==
    [][/\ entity' = entity
       /\ (outcomes' # outcomes /\ outcomes # <<>>) =>
              outcomes'[Len(outcomes')] = outcomes[1]]_vars
C6_Witness ==
    /\ Len(outcomes) = 2
    /\ outcomes[1] = UndecodableCbor("UnexpectedEOF")
    /\ outcomes[2] = outcomes[1]

\* C8: the stages of a call run in the order envelope, dispatch, payload;
\* dispatch runs only after the envelope decoded, the payload parser only
\* for the CBOR codec; a failure ends the call and is the error of the last
\* stage that ran, so a malformed envelope is never UnsupportedCodec or
\* UndecodableCbor and an unsupported codec never UndecodableCbor.
StageOfError(kind) ==
    CASE kind = "MulticodecParseError" -> <<"envelope">>
      [] kind = "UnsupportedCodec" -> <<"envelope", "dispatch">>
      [] kind = "UndecodableCbor" -> <<"envelope", "dispatch", "payload">>
C8_StageOrder ==
    /\ stages \in {<<>>, <<"envelope">>, <<"envelope", "dispatch">>,
                   <<"envelope", "dispatch", "payload">>}
    /\ Len(stages) >= 2 => Envelope(data).ok
    /\ Len(stages) = 3 => CborEnvelope(data)
    /\ result # Ok =>
          /\ pc \in {"return", "idle"}
          /\ result.kind \in ErrorKinds
          /\ stages = StageOfError(result.kind)
    /\ (Returning /\ HasField /\ ~Envelope(TheField).ok) =>
          result.kind = "MulticodecParseError"
    /\ (Returning /\ HasField /\ Envelope(TheField).ok /\ ~CborEnvelope(TheField)) =>
          result.kind = "UnsupportedCodec"
C8_Witness ==
    /\ Returning
    /\ HasField
    /\ TheField = MultiCodec_pack(ProtobufCode, <<249>>)
    /\ ~ParseStream(<<249>>).ok
    /\ stages = <<"envelope", "dispatch">>
    /\ result.kind = "UnsupportedCodec"

\* C9: for each of the five data-carrying variants the outcome is the
\* envelope-then-payload check of the bytes in the data field, a function of
\* those bytes alone: not of the variant, not of any other field.
C9_VariantIndependent ==
    (Returning /\ HasField) =>
        /\ data = TheField
        /\ result = FieldOutcome(TheField)
C9_Witness ==
    /\ Returning
    /\ entity.kind = "NegativeAnnotationAssertion"
    /\ entity.data = Some(<<CborCode, 129, 249>>)
    /\ entity.other # <<>>
    /\ result = UndecodableCbor("UnexpectedEOF")

\* C10: a data field that is present and holds no bytes fails the envelope
\* decode (MulticodecParseError), for Annotation's value and for each of the
\* optional fields, while the same optional field left absent is a success.
C10_EmptyIsNotAbsent ==
    Returning =>
        /\ (entity.kind \in DataKinds /\ entity.data = Some(<<>>)) =>
              result.kind = "MulticodecParseError"
        /\ (entity.kind \in DataKinds /\ entity.data = None) => result = Ok
C10_Witness ==
    /\ Returning
    /\ entity.kind = "AnnotationAssertion"
    /\ entity.data = Some(<<>>)
    /\ result = MulticodecParseError("VarintInsufficient")


=============================================================================
